---- MODULE Spec2Model ----
(***************************************************************************)
(* A model of mity-rs: the Call orchestrator (mity-rs/src/call.rs), the    *)
(* helpers of mity-rs/src/mity_util.rs it uses, and contig resolution.     *)
(*                                                                         *)
(* Strings are sequences of tokens (a token is a short piece of text), so  *)
(* that format!, join, file_stem and the command lines are computed, not   *)
(* assumed.  The file system, the headers of the alignment files and the   *)
(* exit statuses of the external programs are the environment.             *)
(***************************************************************************)
EXTENDS Naturals, Sequences, FiniteSets

VARIABLES
    self,       \* the Call struct (call.rs:12-35)
    disk,       \* alignment path -> what is on disk at that path
    list_file,  \* the text file read in list mode
    created,    \* paths of the files the run has created
    spawned,    \* the external processes spawned so far, in order
    exits,      \* stage -> did it exit with status zero (stages that ran)
    trace,      \* the methods Call::run has invoked so far, in order
    pc,         \* the next method Call::run invokes, or "done"
    result,     \* what Call::run returned ("Running" until it returns)
    given,      \* the arguments Call::new was given
    hdr,        \* contig resolution alone: the header handed to the resolver
    resolved,   \* contig resolution alone: what the resolver returned
    norm,       \* the Normalise struct (normalise.rs:17-31)
    nfs,        \* Normalise: path -> content of the files that exist
    nin         \* Normalise: the sites of the input file when the run starts

vars == <<self, disk, list_file, created, spawned, exits, trace,
          pc, result, given, hdr, resolved, norm, nfs, nin>>

----------------------------------------------------------------------------
(* Bounds of the model *)

MaxFiles == 3   \* longest file list, longest list file
MaxSeqs == 2    \* most @SQ lines of a header
MaxLen == 2     \* longest declared sequence length

----------------------------------------------------------------------------
(* Option and Result values *)

None == [some |-> FALSE, val |-> <<>>]

Some(x) == [some |-> TRUE, val |-> x]

Ok(v) == [kind |-> "Ok", names |-> <<>>, val |-> v]

Err(k, n) == [kind |-> k, names |-> n, val |-> <<>>]

\* a Rust panic (index out of bounds, unwrap on Err): the process aborts
Panic == [kind |-> "Panic", names |-> <<>>, val |-> <<>>]

Running == [kind |-> "Running", names |-> <<>>, val |-> <<>>]

----------------------------------------------------------------------------
(* Strings *)

Range(s) == {s[i] : i \in DOMAIN s}

Reverse(s) == [i \in 1..Len(s) |-> s[Len(s) + 1 - i]]

RECURSIVE Join(_, _)
Join(strs, sep) ==
    IF strs = <<>> THEN <<>>
    ELSE IF Len(strs) = 1 THEN strs[1]
    ELSE strs[1] \o sep \o Join(Tail(strs), sep)

Digits == <<"0", "1", "2", "3", "4", "5", "6", "7", "8", "9">>

RECURSIVE ToStr(_)
ToStr(n) ==
    IF n < 10 THEN <<Digits[n + 1]>>
    ELSE ToStr(n \div 10) \o <<Digits[(n % 10) + 1]>>

----------------------------------------------------------------------------
(* The environment: paths, files on disk, headers *)

PathA == <<"a", ".bam">>

PathB == <<"d", "/", "b", ".bam">>

ListPath == <<"l", ".txt">>

BamPaths == {PathA, PathB}

\* one @SQ line of a header: a sequence name and its declared length
SQ(n, l) == [name |-> n, len |-> l]

\* headers of the alignment files on disk: one with a mitochondrial contig,
\* one without
DiskHeaders == {<<SQ("chr1", 1), SQ("MT", MaxLen)>>, <<SQ("chr1", 1)>>}

Missing == [exists |-> FALSE, rg |-> FALSE, sq |-> <<>>]

\* an alignment file: whether it has an @RG line, and its @SQ lines
FileStates ==
    {Missing} \cup
    {[exists |-> TRUE, rg |-> r, sq |-> h] : r \in BOOLEAN, h \in DiskHeaders}

\* all sequences over S of length at most n
SeqsUpTo(S, n) == UNION {[1..k -> S] : k \in 0..n}

\* Path::new(file).exists()
path_exists(file) ==
    IF file \in DOMAIN disk THEN disk[file].exists
    ELSE file = ListPath /\ list_file.exists

----------------------------------------------------------------------------
(* Header readers *)

\* bam::io::reader::Builder::default().build_from_path(bam): a reader over
\* the file's stream, positioned at its start
build_from_path(sq) == [sq |-> sq, consumed |-> FALSE]

\* reader.read_header(): parses the header at the stream's position and
\* leaves the stream behind it.  Past the header the stream holds alignment
\* records (or nothing), not a header: the read fails
read_header(reader) ==
    IF reader.consumed
    THEN [ok |-> FALSE, header |-> <<>>, reader |-> reader]
    ELSE [ok |-> TRUE, header |-> reader.sq,
          reader |-> [reader EXCEPT !.consumed = TRUE]]

\* Call::bam_has_rg
bam_has_rg(bam) ==
    IF ~path_exists(bam) THEN Err("Io", <<bam>>)
    ELSE IF ~disk[bam].rg THEN Err("NotFound", <<bam>>)
    ELSE Ok(<<>>)

IsMito(seq) == seq = "MT" \/ seq = "chrM"

\* Call::bam_get_mt_contig, on the @SQ lines of the file it opens
bam_get_mt_contig(sq) ==
    LET first == read_header(build_from_path(sq))
        chroms == [i \in DOMAIN first.header |-> first.header[i].name]
        mito_contig == SelectSeq(chroms, IsMito)
        second == read_header(first.reader)
        hits == {i \in DOMAIN second.header :
                    second.header[i].name = mito_contig[1]}
        at == CHOOSE i \in hits : \A j \in hits : i <= j
    IN  IF Len(mito_contig) # 1 THEN Err("ContigNotFound", <<>>)
        ELSE IF ~second.ok THEN Panic
        ELSE IF hits # {}
             THEN Ok(<<second.header[at].name, ":1-">>
                     \o ToStr(second.header[at].len))
             ELSE Err("ContigNotFound", <<>>)

\* mity_util::vcf_get_mt_contig, on the contig lines of the variant file it
\* opens: the keys named MT or chrM, and the length of the single one (0
\* when its line declares none)
vcf_get_mt_contig(contigs) ==
    LET keys == [i \in DOMAIN contigs |-> contigs[i].name]
        mito_contig == SelectSeq(keys, IsMito)
        at == CHOOSE i \in DOMAIN contigs : contigs[i].name = mito_contig[1]
        length == IF contigs[at].length.some THEN contigs[at].length.val
                  ELSE 0
    IN  IF Len(mito_contig) # 1 THEN Err("ExpectedOneMito", mito_contig)
        ELSE Ok([contig |-> mito_contig[1], length |-> length])

----------------------------------------------------------------------------
(* Call: construction and the pure parts of its methods *)

MIN_MQ == 30

MIN_BQ == 24

MIN_AF == <<"0.01">>

MIN_AC == 4

\* Call::new: the defaults of the thresholds, the internal fields empty
Call_new(files, reference, genome, prefix, normalise, output_dir, region, bam_list) ==
    [files |-> files, reference |-> reference, genome |-> genome,
     prefix |-> prefix, min_mq |-> MIN_MQ, min_bq |-> MIN_BQ,
     min_af |-> MIN_AF, min_ac |-> MIN_AC, normalise |-> normalise,
     output_dir |-> output_dir, region |-> region, bam_list |-> bam_list,
     file_string |-> <<>>, normalised_vcf_path |-> <<>>,
     call_vcf_path |-> <<>>, mity_cmd |-> <<>>, sed_cmd |-> <<>>]

\* the tokens that are an extension of a file name
Extensions == {".bam", ".cram", ".txt", ".vcf", ".gz"}

\* faulty variant of make_prefix: the directory is kept
make_prefix_with_dir(file_name) ==
    IF Len(file_name) > 1 /\ file_name[Len(file_name)] \in Extensions
    THEN SubSeq(file_name, 1, Len(file_name) - 1)
    ELSE file_name

\* Call::make_prefix: Path::file_stem, the last component of the path
\* without its last extension
make_prefix(file_name) ==
    LET slashes == {i \in DOMAIN file_name : file_name[i] = "/"}
        last == IF slashes = {} THEN 0
                ELSE CHOOSE i \in slashes : \A j \in slashes : j <= i
        name == SubSeq(file_name, last + 1, Len(file_name))
    IN  IF Len(name) > 1 /\ name[Len(name)] \in Extensions
        THEN SubSeq(name, 1, Len(name) - 1)
        ELSE name

\* faulty variant of file_order: the files in the order given
file_order_same(files) == files

\* the order in which set_strings hands the files to the caller
\* (files.iter().rev())
file_order(files) == Reverse(files)

\* set_strings: the "-b <file>" arguments joined by blanks
make_file_string(files) ==
    LET ordered == file_order(files)
    IN  Join([i \in DOMAIN ordered |-> <<"-b", " ">> \o ordered[i]], <<" ">>)

\* faulty variant of invalid_files: stop at the first file without a read group
invalid_files_first(files) ==
    LET all == SelectSeq(files, LAMBDA file : bam_has_rg(file).kind # "Ok")
    IN  IF all = <<>> THEN <<>> ELSE <<all[1]>>

\* the files run_checks finds to lack a read group, in input order
invalid_files(files) ==
    SelectSeq(files, LAMBDA file : bam_has_rg(file).kind # "Ok")

\* faulty variant of run_checks: the files are checked before the configuration
run_checks_files_first(s) ==
    LET missing == SelectSeq(s.files, LAMBDA file : ~path_exists(file))
        invalid == SelectSeq(s.files,
                             LAMBDA file : bam_has_rg(file).kind # "Ok")
    IN  IF missing # <<>>
        THEN Err("MissingFile", <<missing[1]>>)
        ELSE IF Len(invalid) # 0
        THEN Err("NoReadGroup", invalid)
        ELSE IF Len(s.files) > 1 /\ ~s.prefix.some
        THEN Err("PrefixRequired", <<>>)
        ELSE IF s.normalise /\ ~s.genome.some
        THEN Err("GenomeRequired", <<>>)
        ELSE Ok(<<>>)

\* Call::run_checks
run_checks(s) ==
    LET missing == SelectSeq(s.files, LAMBDA file : ~path_exists(file))
        invalid == invalid_files(s.files)
    IN  IF Len(s.files) > 1 /\ ~s.prefix.some
        THEN Err("PrefixRequired", <<>>)
        ELSE IF s.normalise /\ ~s.genome.some
        THEN Err("GenomeRequired", <<>>)
        ELSE IF missing # <<>>
        THEN Err("MissingFile", <<missing[1]>>)
        ELSE IF Len(invalid) # 0
        THEN Err("NoReadGroup", invalid)
        ELSE Ok(<<>>)

\* Call::set_mity_cmd: the header line and the sed command that inserts it
mity_cmd_of(s) ==
    <<"##mityCommandline=\"mity call --reference", " ">> \o s.reference
    \o <<" ", "--prefix", " ">>
    \o (IF s.prefix.some THEN s.prefix.val ELSE <<>>) \o <<" ", "...\"">>

sed_cmd_of(mity_cmd) ==
    <<"sed", " ", "'s/^##phasing=none/">> \o mity_cmd \o <<"/g'">>

\* the text between the second and the third '/' of the s command
sed_replacement(sed_cmd) == SubSeq(sed_cmd, 4, Len(sed_cmd) - 1)

\* sed reads s/regex/replacement/flags: a '/' inside the text ends the
\* replacement early and what follows is not a flag, so sed rejects the
\* program and exits with an error
sed_program_ok(sed_cmd) == "/" \notin Range(sed_replacement(sed_cmd))

\* the stages of the pipeline run_freebayes hands to bash, in order
Stages == <<"freebayes", "sed_source", "sed_commandline", "sed_phasing",
            "bgzip">>

\* run_freebayes: the command line given to /bin/bash -c
freebayes_call(s) ==
    <<"set", " ", "-o", " ", "pipefail", " ", "&&", " ", "freebayes", " ",
      "-f", " ">> \o s.reference \o <<" ">> \o s.file_string
    \o <<" ", "--min-mapping-quality", " ">> \o ToStr(s.min_mq)
    \o <<" ", "--min-base-quality", " ">> \o ToStr(s.min_bq)
    \o <<" ", "--min-alternate-fraction", " ">> \o s.min_af
    \o <<" ", "--min-alternate-count", " ">> \o ToStr(s.min_ac)
    \o <<" ", "--ploidy", " ", "2", " ", "--region", " ">>
    \o (IF s.region.some THEN s.region.val ELSE <<>>)
    \o <<" ", "|", " ", "sed", " ", "'s/##source/##freebayesSource/'",
         " ", "|", " ", "sed", " ",
         "'s/##commandline/##freebayesCommandline/'", " ", "|", " ">>
    \o s.sed_cmd \o <<" ", "|", " ", "bgzip", " ", ">", " ">>
    \o s.call_vcf_path

\* bash with pipefail: the pipeline succeeds iff every stage exits with zero
pipeline_success(stage_ok) == \A st \in Range(Stages) : stage_ok[st]

\* faulty variant of run_freebayes_result: the status of the pipeline is dropped
run_freebayes_unchecked(stage_ok) == Ok(<<>>)

\* run_freebayes: the check of output.status
run_freebayes_result(stage_ok) ==
    IF ~pipeline_success(stage_ok) THEN Err("FreeBayesFailed", <<>>)
    ELSE Ok(<<>>)

\* mity_util::tabix: its command line, and what it returns.  Only a failure
\* to start sh is an error: the exit status is dropped
tabix_call(file) == <<"tabix", " ", "-f", " ">> \o file

tabix_result(started, tabix_ok) ==
    IF ~started THEN Err("TabixSpawn", <<>>) ELSE Ok(<<>>)

----------------------------------------------------------------------------
(* Call::run, one action per method it invokes *)

\* faulty variant of StepAfter: the pipeline runs before the region is resolved
StepAfterPipelineFirst(step, s) ==
    CASE step = "get_files_from_list" -> "run_checks"
      [] step = "run_checks" -> "set_strings"
      [] step = "set_strings" -> "set_mity_cmd"
      [] step = "set_mity_cmd" -> "run_freebayes"
      [] step = "run_freebayes" -> "set_region"
      [] step = "set_region" ->
            IF s.normalise THEN "run_normalise" ELSE "tabix"
      [] OTHER -> "done"

\* Call::run, lines 103-117: the method invoked after `step` returned Ok
StepAfter(step, s) ==
    CASE step = "get_files_from_list" -> "run_checks"
      [] step = "run_checks" -> "set_strings"
      [] step = "set_strings" -> "set_region"
      [] step = "set_region" -> "set_mity_cmd"
      [] step = "set_mity_cmd" -> "run_freebayes"
      [] step = "run_freebayes" ->
            IF s.normalise THEN "run_normalise" ELSE "tabix"
      [] OTHER -> "done"

\* the ? operator after a method of Call::run: an error (or a panic) ends
\* the run with it, Ok goes on to the next method; run returns Ok(()) after
\* the last one
Propagate(step, r, s) ==
    IF r.kind # "Ok" THEN [pc |-> "done", result |-> r]
    ELSE IF StepAfter(step, s) = "done"
    THEN [pc |-> "done", result |-> Ok(<<>>)]
    ELSE [pc |-> StepAfter(step, s), result |-> Running]

\* Call::get_files_from_list: the new file list
get_files_from_list(s) ==
    IF Len(s.files) > 1 THEN Err("ListModeArg", <<>>)
    ELSE IF Len(s.files) = 0 THEN Panic
    ELSE IF ~path_exists(s.files[1]) THEN Err("ReadToString", <<s.files[1]>>)
    ELSE Ok(list_file.lines)

\* Call::set_strings: the struct with prefix, file_string and paths set
set_strings(s) ==
    IF ~s.prefix.some /\ Len(s.files) = 0 THEN Panic
    ELSE LET prefix == IF s.prefix.some THEN s.prefix.val
                       ELSE make_prefix(s.files[1])
         IN  Ok([s EXCEPT
                 !.prefix = Some(prefix),
                 !.file_string = make_file_string(s.files),
                 !.normalised_vcf_path =
                     s.output_dir \o <<"/">> \o prefix
                     \o <<".mity.normalise.vcf.gz">>,
                 !.call_vcf_path =
                     s.output_dir \o <<"/">> \o prefix
                     \o <<".mity.call.vcf.gz">>])

\* Call::set_region: the struct with the region set
set_region(s) ==
    IF s.region.some THEN Ok(s)
    ELSE IF Len(s.files) = 0 THEN Panic
    ELSE LET r == bam_get_mt_contig(disk[s.files[1]].sq)
         IN  IF r.kind = "Ok" THEN Ok([s EXCEPT !.region = Some(r.val)])
             ELSE r

\* Call::set_mity_cmd
set_mity_cmd(s) ==
    [s EXCEPT !.mity_cmd = mity_cmd_of(s),
              !.sed_cmd = sed_cmd_of(mity_cmd_of(s))]

\* the exit statuses recorded so far, with those of `new` added
WithExits(old, new) ==
    [st \in DOMAIN old \cup DOMAIN new |->
        IF st \in DOMAIN new THEN new[st] ELSE old[st]]

Envs == <<disk, list_file>>

GetFilesFromList ==
    /\ pc = "get_files_from_list"
    /\ LET r == get_files_from_list(self)
           to == Propagate("get_files_from_list", r, self)
       IN  /\ self' = IF r.kind = "Ok" THEN [self EXCEPT !.files = r.val]
                      ELSE self
           /\ pc' = to.pc
           /\ result' = to.result
    /\ trace' = Append(trace, "get_files_from_list")
    /\ UNCHANGED <<Envs, created, spawned, exits, given, hdr, resolved,
                   norm, nfs, nin>>

RunChecks ==
    /\ pc = "run_checks"
    /\ LET to == Propagate("run_checks", run_checks(self), self)
       IN  /\ pc' = to.pc
           /\ result' = to.result
    /\ trace' = Append(trace, "run_checks")
    /\ UNCHANGED <<self, Envs, created, spawned, exits, given, hdr, resolved,
                   norm, nfs, nin>>

SetStrings ==
    /\ pc = "set_strings"
    /\ LET r == set_strings(self)
           to == Propagate("set_strings", r, self)
       IN  /\ self' = IF r.kind = "Ok" THEN r.val ELSE self
           /\ pc' = to.pc
           /\ result' = to.result
    /\ trace' = Append(trace, "set_strings")
    /\ UNCHANGED <<Envs, created, spawned, exits, given, hdr, resolved,
                   norm, nfs, nin>>

SetRegion ==
    /\ pc = "set_region"
    /\ LET r == set_region(self)
           to == Propagate("set_region", r, self)
       IN  /\ self' = IF r.kind = "Ok" THEN r.val ELSE self
           /\ pc' = to.pc
           /\ result' = to.result
    /\ trace' = Append(trace, "set_region")
    /\ UNCHANGED <<Envs, created, spawned, exits, given, hdr, resolved,
                   norm, nfs, nin>>

SetMityCmd ==
    /\ pc = "set_mity_cmd"
    /\ self' = set_mity_cmd(self)
    /\ LET to == Propagate("set_mity_cmd", Ok(<<>>), self)
       IN  /\ pc' = to.pc
           /\ result' = to.result
    /\ trace' = Append(trace, "set_mity_cmd")
    /\ UNCHANGED <<Envs, created, spawned, exits, given, hdr, resolved,
                   norm, nfs, nin>>

\* Call::run_freebayes.  The environment decides whether /bin/bash starts,
\* whether the redirection `> call_vcf_path` can create the file, and how
\* each stage exits (bgzip cannot succeed without its output file, the
\* header rewrite cannot succeed with a program sed rejects)
RunFreebayes ==
    /\ pc = "run_freebayes"
    /\ \E started \in BOOLEAN, redirected \in BOOLEAN,
          stage_ok \in [Range(Stages) -> BOOLEAN] :
          /\ ~redirected => ~stage_ok["bgzip"]
          /\ ~sed_program_ok(self.sed_cmd) => ~stage_ok["sed_phasing"]
          /\ ~started => (redirected /\ pipeline_success(stage_ok))
          /\ LET r == IF started THEN run_freebayes_result(stage_ok)
                      ELSE Err("SpawnFailed", <<>>)
                 to == Propagate("run_freebayes", r, self)
             IN  /\ pc' = to.pc
                 /\ result' = to.result
          /\ spawned' = IF started
                        THEN Append(spawned, [prog |-> "/bin/bash",
                                              cmd |-> freebayes_call(self)])
                        ELSE spawned
          /\ exits' = IF started THEN WithExits(exits, stage_ok) ELSE exits
          /\ created' = IF started /\ redirected
                        THEN created \cup {self.call_vcf_path}
                        ELSE created
    /\ trace' = Append(trace, "run_freebayes")
    /\ UNCHANGED <<self, Envs, given, hdr, resolved,
                   norm, nfs, nin>>

\* Call::run_normalise: logs "Not implemented yet!" and returns Ok
RunNormalise ==
    /\ pc = "run_normalise"
    /\ LET to == Propagate("run_normalise", Ok(<<>>), self)
       IN  /\ pc' = to.pc
           /\ result' = to.result
    /\ trace' = Append(trace, "run_normalise")
    /\ UNCHANGED <<self, Envs, created, spawned, exits, given, hdr, resolved,
                   norm, nfs, nin>>

\* mity_util::tabix on the call output.  The environment decides whether sh
\* starts and how tabix exits; tabix writes the index when it succeeds
Tabix ==
    /\ pc = "tabix"
    /\ \E started \in BOOLEAN, tabix_ok \in BOOLEAN :
          /\ ~started => tabix_ok
          /\ LET to == Propagate("tabix", tabix_result(started, tabix_ok),
                                 self)
             IN  /\ pc' = to.pc
                 /\ result' = to.result
          /\ spawned' = IF started
                        THEN Append(spawned,
                                    [prog |-> "sh",
                                     cmd |-> tabix_call(self.call_vcf_path)])
                        ELSE spawned
          /\ exits' = IF started
                      THEN WithExits(exits, [st \in {"tabix"} |-> tabix_ok])
                      ELSE exits
          /\ created' = IF started /\ tabix_ok
                        THEN created \cup {self.call_vcf_path \o <<".tbi">>}
                        ELSE created
    /\ trace' = Append(trace, "tabix")
    /\ UNCHANGED <<self, Envs, given, hdr, resolved,
                   norm, nfs, nin>>

\* no Normalise has been constructed
NormIdle ==
    /\ norm = [vcf |-> <<>>]
    /\ nfs = [path \in {} |-> <<>>]
    /\ nin = <<>>

----------------------------------------------------------------------------
(* The arguments of a run and the state after Call::new *)

Reference == <<"hs37d5">>

OutputDir == <<".">>

Prefixes == {None, Some(<<"trio">>)}

Genomes == {None, Some(<<"hs37d5", ".genome">>)}

Regions == {None, Some(<<"chrM", ":1-", "9">>)}

\* the command lines: alignment files, or in list mode the list file
Requests ==
    {g \in [files : SeqsUpTo(BamPaths \cup {ListPath}, MaxFiles),
            prefix : Prefixes, genome : Genomes, region : Regions,
            normalise : BOOLEAN, bam_list : BOOLEAN] :
        IF g.bam_list THEN Range(g.files) \subseteq {ListPath}
        ELSE Range(g.files) \subseteq BamPaths}

ListFiles(bam_list) ==
    IF bam_list
    THEN {[exists |-> FALSE, lines |-> <<>>]} \cup
         [exists : {TRUE}, lines : SeqsUpTo(BamPaths, MaxFiles)]
    ELSE {[exists |-> FALSE, lines |-> <<>>]}

Init ==
    /\ given \in Requests
    /\ self = Call_new(given.files, Reference, given.genome, given.prefix,
                       given.normalise, OutputDir, given.region,
                       given.bam_list)
    /\ disk \in [BamPaths -> FileStates]
    /\ list_file \in ListFiles(given.bam_list)
    /\ created = {}
    /\ spawned = <<>>
    /\ exits = [st \in {} |-> TRUE]
    /\ trace = <<>>
    /\ pc = IF given.bam_list THEN "get_files_from_list" ELSE "run_checks"
    /\ result = Running
    /\ hdr = <<>>
    /\ resolved = Running
    /\ NormIdle

Next ==
    \/ GetFilesFromList
    \/ RunChecks
    \/ SetStrings
    \/ SetRegion
    \/ SetMityCmd
    \/ RunFreebayes
    \/ RunNormalise
    \/ Tabix

Spec == Init /\ [][Next]_vars

----------------------------------------------------------------------------
(* Call::run as started by the handler that hands over the path of the
   reference file (select_reference_fasta), on readable alignment files *)

ReferencePath == <<"/", "dir", "/", "hs37d5", ".fa">>

CmdReferences == {Reference, ReferencePath}

CmdPrefixes == Prefixes \cup {Some(<<"out", "/", "trio">>)}

CmdRequests ==
    [files : SeqsUpTo(BamPaths, MaxFiles) \ {<<>>},
     prefix : CmdPrefixes, genome : Genomes \ {None}, region : Regions,
     normalise : BOOLEAN, bam_list : {FALSE}]

CmdInit ==
    /\ given \in CmdRequests
    /\ \E reference \in CmdReferences :
          self = Call_new(given.files, reference, given.genome, given.prefix,
                          given.normalise, OutputDir, given.region,
                          given.bam_list)
    /\ disk \in [BamPaths -> {[exists |-> TRUE, rg |-> TRUE, sq |-> h] :
                                h \in DiskHeaders}]
    /\ list_file = [exists |-> FALSE, lines |-> <<>>]
    /\ created = {}
    /\ spawned = <<>>
    /\ exits = [st \in {} |-> TRUE]
    /\ trace = <<>>
    /\ pc = "run_checks"
    /\ result = Running
    /\ hdr = <<>>
    /\ resolved = Running
    /\ NormIdle

NextCmd ==
    \/ RunChecks
    \/ SetStrings
    \/ SetRegion
    \/ SetMityCmd
    \/ RunFreebayes
    \/ RunNormalise
    \/ Tabix

SpecCmd == CmdInit /\ [][NextCmd]_vars

----------------------------------------------------------------------------
(* Contig resolution alone: every header up to the bounds *)

SeqNames == {"MT", "chrM", "chr1", "mt"}

\* headers: @SQ lines with distinct names and a length of at least 1
Headers ==
    {h \in SeqsUpTo([name : SeqNames, len : 1..MaxLen], MaxSeqs) :
        \A i, j \in DOMAIN h : h[i].name = h[j].name => i = j}

\* headers of variant files: contig lines with distinct names, each with a
\* declared length or none
VcfHeaders ==
    {h \in SeqsUpTo([name : SeqNames,
                     length : {None} \cup {Some(l) : l \in 1..MaxLen}],
                    MaxSeqs) :
        \A i, j \in DOMAIN h : h[i].name = h[j].name => i = j}

ContigInit ==
    /\ \/ hdr \in Headers /\ pc = "resolve"
       \/ hdr \in VcfHeaders /\ pc = "resolve_vcf"
    /\ resolved = Running
    /\ given = [files |-> <<>>, prefix |-> None, genome |-> None,
                region |-> None, normalise |-> FALSE, bam_list |-> FALSE]
    /\ self = Call_new(<<>>, Reference, None, None, FALSE, OutputDir, None,
                       FALSE)
    /\ disk = [p \in BamPaths |-> Missing]
    /\ list_file = [exists |-> FALSE, lines |-> <<>>]
    /\ created = {}
    /\ spawned = <<>>
    /\ exits = [st \in {} |-> TRUE]
    /\ trace = <<>>
    /\ result = Running
    /\ NormIdle

\* Call::bam_get_mt_contig applied to an alignment file with header hdr
ResolveBam ==
    /\ pc = "resolve"
    /\ resolved' = bam_get_mt_contig(hdr)
    /\ pc' = "resolved_bam"
    /\ trace' = Append(trace, "bam_get_mt_contig")
    /\ UNCHANGED <<self, Envs, created, spawned, exits, result, given, hdr,
                   norm, nfs, nin>>

\* mity_util::vcf_get_mt_contig applied to a variant file with header hdr
ResolveVcf ==
    /\ pc = "resolve_vcf"
    /\ resolved' = vcf_get_mt_contig(hdr)
    /\ pc' = "resolved_vcf"
    /\ trace' = Append(trace, "vcf_get_mt_contig")
    /\ UNCHANGED <<self, Envs, created, spawned, exits, result, given, hdr,
                   norm, nfs, nin>>

NextContig ==
    \/ ResolveBam
    \/ ResolveVcf

SpecContig == ContigInit /\ [][NextContig]_vars

----------------------------------------------------------------------------
(* Normalise (normalise.rs): construction, the three steps of run *)

MaxSites == 1
MaxSamples == 2

BLACKLIST ==
    <<302, 303, 304, 305, 306, 307, 308, 309, 310, 311, 312, 313, 314, 315,
      316, 317, 318, 3105, 3106, 3107>>

\* str.replace(from, to) on a token sequence: every token from becomes to
Replace(s, from, to) == [i \in DOMAIN s |-> IF s[i] = from THEN to ELSE s[i]]

\* PathBuf::from(dir).join(name): an absolute name replaces the directory
PathJoin(dir, name) ==
    IF name # <<>> /\ name[1] = "/" THEN name ELSE dir \o <<"/">> \o name

\* Normalise::make_prefix: the last '/'-separated part, extensions kept
normalise_make_prefix(vcf) ==
    LET slashes == {i \in DOMAIN vcf : vcf[i] = "/"}
        from == IF slashes = {} THEN 1
                ELSE 1 + CHOOSE i \in slashes : \A j \in slashes : j <= i
    IN  SubSeq(vcf, from, Len(vcf))

\* Normalise::set_paths
set_paths(n) ==
    LET prefix == IF n.prefix.some THEN n.prefix.val
                  ELSE normalise_make_prefix(n.vcf)
    IN  [n EXCEPT
            !.prefix = Some(prefix),
            !.bcftools_norm_path =
                PathJoin(n.output_dir, prefix \o <<".bcftools.norm.vcf.gz">>),
            !.filtered_vcf_path = Replace(n.vcf, ".vcf.gz", ".filtered.vcf"),
            !.normalised_vcf_path =
                PathJoin(n.output_dir, prefix \o <<".normalise.vcf.gz">>)]

\* Normalise::new
Normalise_new(vcf, reference_fasta, genome, output_dir, prefix, allsamples, keep) ==
    set_paths([vcf |-> vcf, reference_fasta |-> reference_fasta,
               genome |-> genome, output_dir |-> output_dir,
               prefix |-> prefix, allsamples |-> allsamples, keep |-> keep,
               bcftools_norm_path |-> <<>>, filtered_vcf_path |-> <<>>,
               normalised_vcf_path |-> <<>>])

\* Path::exists on the files of a Normalise run
norm_exists(path) == path \in DOMAIN nfs

\* File::create + write_all: the file exists afterwards with this content
WriteFile(fs, path, content) ==
    [q \in DOMAIN fs \cup {path} |-> IF q = path THEN content ELSE fs[q]]

\* fs::remove_file
RemoveFile(fs, path) == [q \in DOMAIN fs \ {path} |-> fs[q]]

\* what run_bcftools_norm writes: a line of text, no variant record
bcftools_norm_output(n) ==
    [text |-> <<"Simulating bcftools norm on ">> \o n.vcf
                  \o <<" with reference ">> \o n.reference_fasta,
     records |-> <<>>]

\* what run_filtering writes: a fixed text, no variant record
filtering_output == [text |-> <<"Simulated filtered VCF data">>, records |-> <<>>]

\* remove_intermediate_files: the two scratch paths, when keep is not set
remove_intermediate_files(n, fs) ==
    IF ~n.keep
    THEN LET fs1 == IF n.filtered_vcf_path \in DOMAIN fs
                    THEN RemoveFile(fs, n.filtered_vcf_path) ELSE fs
         IN  IF n.bcftools_norm_path \in DOMAIN fs1
             THEN RemoveFile(fs1, n.bcftools_norm_path) ELSE fs1
    ELSE fs

CallVars == <<self, Envs, created, spawned, exits, given, hdr, resolved>>

\* run step 1; File::create(..).expect(..) panics when the file cannot be made
RunBcftoolsNorm ==
    /\ pc = "run_bcftools_norm"
    /\ trace' = Append(trace, "run_bcftools_norm")
    /\ \E create_ok \in BOOLEAN :
          IF create_ok
          THEN /\ nfs' = WriteFile(nfs, norm.bcftools_norm_path,
                                   bcftools_norm_output(norm))
               /\ pc' = "run_filtering"
               /\ UNCHANGED result
          ELSE /\ result' = Panic
               /\ pc' = "done"
               /\ UNCHANGED nfs
    /\ UNCHANGED <<CallVars, norm, nin>>

\* run step 2; the same panic on a file that cannot be made
RunFiltering ==
    /\ pc = "run_filtering"
    /\ trace' = Append(trace, "run_filtering")
    /\ \E create_ok \in BOOLEAN :
          IF create_ok
          THEN /\ nfs' = WriteFile(nfs, norm.filtered_vcf_path, filtering_output)
               /\ pc' = "remove_intermediate_files"
               /\ UNCHANGED result
          ELSE /\ result' = Panic
               /\ pc' = "done"
               /\ UNCHANGED nfs
    /\ UNCHANGED <<CallVars, norm, nin>>

\* run step 3 (the sort between 2 and 3 is commented out), then Ok(())
RemoveIntermediateFiles ==
    /\ pc = "remove_intermediate_files"
    /\ trace' = Append(trace, "remove_intermediate_files")
    /\ nfs' = remove_intermediate_files(norm, nfs)
    /\ result' = Ok(<<>>)
    /\ pc' = "done"
    /\ UNCHANGED <<CallVars, norm, nin>>

VcfGz == <<"out", "/", "trio", ".mity.call", ".vcf.gz">>
VcfPlain == <<"trio", ".vcf">>
VcfPaths == {VcfGz, VcfPlain}
OutputDirs == {<<".">>, <<"out">>}
NormPrefixes == {None, Some(<<"trio">>)}
Positions == {BLACKLIST[1], 1000}

\* a record of the input: its position and, per sample, whether the sample
\* meets every per-sample threshold
Sites ==
    [pos : Positions,
     samples : SeqsUpTo(BOOLEAN, MaxSamples) \ {<<>>}]

NormInit ==
    /\ \E vcf \in VcfPaths, output_dir \in OutputDirs, prefix \in NormPrefixes,
          allsamples \in BOOLEAN, keep \in BOOLEAN :
          /\ norm = Normalise_new(vcf, Reference, <<"genome">>, output_dir,
                                  prefix, allsamples, keep)
          /\ nin \in SeqsUpTo(Sites, MaxSites)
          /\ nfs = [q \in {vcf} |-> [text |-> <<"calls">>, records |-> nin]]
    /\ pc = "run_bcftools_norm"
    /\ trace = <<>>
    /\ result = Running
    /\ self = [files |-> <<>>]
    /\ given = [files |-> <<>>]
    /\ disk = [f \in BamPaths |-> Missing]
    /\ list_file = [exists |-> FALSE, lines |-> <<>>]
    /\ created = {}
    /\ spawned = <<>>
    /\ exits = [st \in {} |-> TRUE]
    /\ hdr = <<>>
    /\ resolved = Running

NextNorm ==
    \/ RunBcftoolsNorm
    \/ RunFiltering
    \/ RemoveIntermediateFiles

SpecNorm == NormInit /\ [][NextNorm]_vars

----------------------------------------------------------------------------
(* Properties of Call::run *)

Last(s) == s[Len(s)]

Invoked(step) == step \in Range(trace)

\* the word of a command line that starts at token i: up to the next blank
WordAt(cmd, i) ==
    LET ends == {j \in i..(Len(cmd) + 1) : j = Len(cmd) + 1 \/ cmd[j] = " "}
        end == CHOOSE j \in ends : \A k \in ends : j <= k
    IN  SubSeq(cmd, i, end - 1)

\* the positions at which the word `flag` stands in a command line
FlagPositions(cmd, flag) ==
    {i \in DOMAIN cmd :
        /\ cmd[i] = flag
        /\ i = 1 \/ cmd[i - 1] = " "
        /\ i < Len(cmd) /\ cmd[i + 1] = " "}

\* the arguments that follow each occurrence of `flag`, in order
ArgsOf(cmd, flag) ==
    LET at == FlagPositions(cmd, flag)
        nth(k) == CHOOSE i \in at : Cardinality({j \in at : j < i}) = k - 1
    IN  [k \in 1..Cardinality(at) |-> WordAt(cmd, nth(k) + 2)]

MissingFiles == {f \in Range(self.files) : ~path_exists(f)}

\* the errors of the validation and resolution path of Call::run
ValidationKinds ==
    {"ListModeArg", "ReadToString", "PrefixRequired", "GenomeRequired",
     "MissingFile", "NoReadGroup", "ContigNotFound"}

\* C1: a run that ends in a validation or resolution failure has spawned no
\* external process and created no output file when the error is returned
C1_ValidationFailureHasNoSideEffects ==
    result.kind \in ValidationKinds => spawned = <<>> /\ created = {}

\* C1 witness: the last failure before the pipeline, an unresolvable contig
C1_Witness ==
    /\ result.kind = "ContigNotFound"
    /\ Last(trace) = "set_region"
    /\ spawned = <<>>

\* C2: when run_checks runs on more than one alignment file and no prefix
\* was given, the run fails with the prefix error and nothing was spawned,
\* whatever else is wrong with the request
C2_PrefixRequiredWhateverElse ==
    (Invoked("run_checks") /\ Len(self.files) > 1 /\ ~given.prefix.some)
        => /\ result.kind = "PrefixRequired"
           /\ pc = "done"
           /\ ~Invoked("run_freebayes")
           /\ spawned = <<>>

\* C2 witness: no prefix, several files, and also a file without a read
\* group and no genome file for the normalisation asked for
C2_Witness ==
    /\ result.kind = "PrefixRequired"
    /\ Len(self.files) > 1
    /\ \E f \in Range(self.files) : path_exists(f) /\ ~disk[f].rg
    /\ self.normalise /\ ~self.genome.some

\* C3: the missing-file error names every missing file of the list
C3_AllMissingFilesNamed ==
    result.kind = "MissingFile" => MissingFiles \subseteq Range(result.names)

\* C4: when every file exists and the read-group check is reached, it fails
\* iff some file has no read group, and its error names exactly those
\* files, in input order
C4_ReadGroupErrorNamesExactlyTheLacking ==
    (/\ trace # <<>> /\ Last(trace) = "run_checks"
     /\ MissingFiles = {}
     /\ result.kind \notin {"PrefixRequired", "GenomeRequired"})
        => LET lacking == SelectSeq(self.files, LAMBDA f : ~disk[f].rg)
           IN  IF lacking = <<>>
               THEN result = Running /\ pc = "set_strings"
               ELSE result = Err("NoReadGroup", lacking) /\ pc = "done"

\* C4 witness: three files, the first and the third without a read group,
\* the second with one
C4_Witness ==
    /\ result.kind = "NoReadGroup"
    /\ Len(self.files) = 3
    /\ ~disk[self.files[1]].rg /\ disk[self.files[2]].rg
    /\ ~disk[self.files[3]].rg
    /\ Len(result.names) = 2

\* what run_checks returns when the checks are applied in the order
\* existence, read group, prefix, genome ("Running": all passed)
FirstFailureFilesFirst ==
    IF MissingFiles # {} THEN "MissingFile"
    ELSE IF \E f \in Range(self.files) : ~disk[f].rg THEN "NoReadGroup"
    ELSE IF Len(self.files) > 1 /\ ~given.prefix.some THEN "PrefixRequired"
    ELSE IF self.normalise /\ ~self.genome.some THEN "GenomeRequired"
    ELSE "Running"

\* the same in the order prefix, genome, existence, read group
FirstFailureConfigFirst ==
    IF Len(self.files) > 1 /\ ~given.prefix.some THEN "PrefixRequired"
    ELSE IF self.normalise /\ ~self.genome.some THEN "GenomeRequired"
    ELSE IF MissingFiles # {} THEN "MissingFile"
    ELSE IF \E f \in Range(self.files) : ~disk[f].rg THEN "NoReadGroup"
    ELSE "Running"

\* C5 as stated: the error of run_checks is that of the earliest violated
\* step in the order existence, read group, prefix, genome
C5_ErrorOfEarliestStepFilesFirst ==
    (trace # <<>> /\ Last(trace) = "run_checks")
        => result.kind = FirstFailureFilesFirst

\* C5 amended: list-mode expansion comes first, and the error of run_checks
\* is that of the earliest violated step in the order prefix, genome,
\* existence, read group
C5_ErrorOfEarliestStepConfigFirst ==
    /\ (trace # <<>> /\ given.bam_list)
            => trace[1] = "get_files_from_list"
    /\ (trace # <<>> /\ Last(trace) = "run_checks")
            => result.kind = FirstFailureConfigFirst

\* C5 witness: a missing file and several files without prefix: the prefix
\* error is returned
C5_Witness ==
    /\ trace # <<>> /\ Last(trace) = "run_checks"
    /\ MissingFiles # {}
    /\ Len(self.files) > 1 /\ ~given.prefix.some
    /\ result.kind = "PrefixRequired"

\* C6: a finished run in which some external stage exited with a non-zero
\* status ended with an external-tool error (so a successful run had every
\* stage exit with zero)
C6_EveryStageStatusChecked ==
    (pc = "done" /\ \E st \in DOMAIN exits : ~exits[st])
        => result.kind \in {"FreeBayesFailed", "TabixFailed"}

\* C7: after a failure of the variant-calling stage no file is left at the
\* call output path
C7_NoCallOutputAfterCallerFailure ==
    (pc = "done" /\ "freebayes" \in DOMAIN exits /\ ~exits["freebayes"])
        => self.call_vcf_path \notin created

\* some stage of the calling pipeline exited with a non-zero status
PipelineStageFailed ==
    \E st \in Range(Stages) : st \in DOMAIN exits /\ ~exits[st]

\* C8: when run_freebayes returns an error, neither tabix nor the
\* normalisation is invoked afterwards, and when a stage of the pipeline
\* failed the run returns the FreeBayes error
C8_PipelineFailureEndsTheRun ==
    /\ PipelineStageFailed
        => /\ result.kind = "FreeBayesFailed"
           /\ pc = "done"
           /\ ~Invoked("tabix") /\ ~Invoked("run_normalise")
    /\ result.kind = "SpawnFailed"
        => pc = "done" /\ ~Invoked("tabix") /\ ~Invoked("run_normalise")

\* C8 witness: the caller succeeded and a header rewrite failed
C8_Witness ==
    /\ result.kind = "FreeBayesFailed"
    /\ exits["freebayes"] /\ ~exits["sed_phasing"]
    /\ Last(trace) = "run_freebayes"

\* the -b arguments of the command lines given to /bin/bash
BamArgs(i) == ArgsOf(spawned[i].cmd, "-b")

\* C9 as stated: the -b arguments of the caller are the files in the order
\* of the file list
C9_FilesInListOrder ==
    \A i \in DOMAIN spawned :
        spawned[i].prog = "/bin/bash" => BamArgs(i) = self.files

\* C9 amended: the -b arguments of the caller are the files of the file
\* list in reverse order
C9_FilesInReverseOrder ==
    \A i \in DOMAIN spawned :
        spawned[i].prog = "/bin/bash"
            => /\ Len(BamArgs(i)) = Len(self.files)
               /\ \A k \in DOMAIN self.files :
                    BamArgs(i)[k] = self.files[Len(self.files) + 1 - k]

\* C9 witness: the caller was started on two different files
C9_Witness ==
    /\ spawned # <<>>
    /\ spawned[1].prog = "/bin/bash"
    /\ Len(self.files) >= 2
    /\ self.files[1] # self.files[2]

----------------------------------------------------------------------------
(* Properties of contig resolution *)

MitoLines == {i \in DOMAIN hdr : hdr[i].name \in {"MT", "chrM"}}

\* C10: for a header with exactly one sequence named MT or chrM, of length
\* L, resolution returns the region <name>:1-<L>
C10_OneMitoContigResolves ==
    (pc = "resolved_bam" /\ Cardinality(MitoLines) = 1)
        => \E i \in MitoLines :
              resolved = Ok(<<hdr[i].name, ":1-">> \o ToStr(hdr[i].len))

\* the sequences of the header named MT or chrM, in header order
Candidates ==
    SelectSeq([i \in DOMAIN hdr |-> hdr[i].name], LAMBDA n : n \in {"MT", "chrM"})

\* C11: for a header with no, or with several, sequences named MT or chrM,
\* both resolvers fail, and the error names the candidates found
C11_FailureNamesCandidates ==
    (pc \in {"resolved_bam", "resolved_vcf"} /\ Cardinality(MitoLines) # 1)
        => /\ resolved.kind \in {"ContigNotFound", "ExpectedOneMito"}
           /\ resolved.names = Candidates

\* C12: every region a resolver returns starts at 1 and ends at the declared
\* length of the mitochondrial contig, which is at least 1: also when the
\* contig line of a variant header declares no length
C12_RegionEndsAtDeclaredLength ==
    /\ (pc = "resolved_bam" /\ resolved.kind = "Ok")
        => \E i \in MitoLines :
              /\ hdr[i].len >= 1
              /\ resolved.val = <<hdr[i].name, ":1-">> \o ToStr(hdr[i].len)
    /\ (pc = "resolved_vcf" /\ resolved.kind = "Ok")
        => \E i \in MitoLines :
              /\ resolved.val.contig = hdr[i].name
              /\ resolved.val.length >= 1
              /\ hdr[i].length.some
                    => resolved.val.length = hdr[i].length.val

----------------------------------------------------------------------------
(* Properties of Call::run, continued *)

\* C13: in list mode, a file list that does not hold exactly one path ends
\* the run with the list-mode configuration error and is left unchanged; a
\* list of one readable path is replaced by the lines of that file, in file
\* order, before any alignment file is validated
C13_ListModeExpansion ==
    (given.bam_list /\ Invoked("get_files_from_list"))
        => /\ trace[1] = "get_files_from_list"
           /\ Len(given.files) # 1
                => /\ result.kind = "ListModeArg"
                   /\ pc = "done"
                   /\ self.files = given.files
           /\ (Len(given.files) = 1 /\ path_exists(given.files[1]))
                => self.files = list_file.lines

\* set_strings has run and returned
SetStringsDone ==
    /\ Invoked("set_strings")
    /\ ~(Last(trace) = "set_strings" /\ result.kind = "Panic")

\* the names of the alignment files without directory and extension
ExpectedStem(file) == IF file = PathA THEN <<"a">> ELSE <<"b">>

\* C14: the prefix is the explicit one when given, else the name of the
\* first file without directory and extension, and the output paths are
\* <output_dir>/<prefix>.mity.call.vcf.gz and
\* <output_dir>/<prefix>.mity.normalise.vcf.gz
C14_PrefixAndOutputPaths ==
    SetStringsDone
        => LET prefix == IF given.prefix.some THEN given.prefix.val
                         ELSE ExpectedStem(self.files[1])
           IN  /\ self.prefix = Some(prefix)
               /\ self.call_vcf_path =
                    OutputDir \o <<"/">> \o prefix \o <<".mity.call.vcf.gz">>
               /\ self.normalised_vcf_path =
                    OutputDir \o <<"/">> \o prefix
                    \o <<".mity.normalise.vcf.gz">>

\* C14 witness: no prefix given and a first file inside a directory
C14_Witness ==
    /\ SetStringsDone
    /\ ~given.prefix.some
    /\ self.files[1] = PathB
    /\ self.prefix = Some(<<"b">>)

\* the lines of the header of the first file that are named MT or chrM
FirstFileMito ==
    LET sq == disk[self.files[1]].sq
    IN  {i \in DOMAIN sq : sq[i].name \in {"MT", "chrM"}}

\* C15: an explicit region is kept as given; without one, set_region sets
\* the region resolved from the header of the first file and the run goes
\* on; the caller is never invoked with an empty region
C15_RegionPassedToCaller ==
    /\ (Invoked("set_region") /\ given.region.some)
            => self.region = given.region
    /\ (/\ trace # <<>> /\ Last(trace) = "set_region"
        /\ ~given.region.some
        /\ self.files # <<>>
        /\ Cardinality(FirstFileMito) = 1)
            => LET sq == disk[self.files[1]].sq
               IN  /\ pc = "set_mity_cmd"
                   /\ \E i \in FirstFileMito :
                        self.region =
                            Some(<<sq[i].name, ":1-">> \o ToStr(sq[i].len))
    /\ Invoked("run_freebayes")
            => self.region.some /\ self.region.val # <<>>

\* C16: a successful run did exactly one follow-up after the pipeline:
\* without normalisation the index of the raw call output, with
\* normalisation the normalisation, which leaves the normalised file and its
\* index at <output_dir>/<prefix>.mity.normalise.vcf.gz
C16_OneFollowUpAfterThePipeline ==
    result.kind = "Ok"
        => IF self.normalise
           THEN /\ Invoked("run_normalise") /\ ~Invoked("tabix")
                /\ self.normalised_vcf_path \in created
                /\ (self.normalised_vcf_path \o <<".tbi">>) \in created
           ELSE Invoked("tabix") /\ ~Invoked("run_normalise")

\* a Normalise run has ended
NormDone == pc = "done" /\ Invoked("run_bcftools_norm")

\* the records of the file run_filtering has just written
Filtered == nfs[norm.filtered_vcf_path].records

FilteringWrote == pc = "remove_intermediate_files"

\* the i-th record of the filtered file carries FILTER = PASS
SitePass(i) == i \in DOMAIN Filtered /\ Filtered[i].filter = "PASS"

\* C17: after a successful Normalise run without keep, the two scratch
\* files and the raw call file handed to the run are gone; with keep, all
\* three are still there
C17_ScratchAndRawCallFileRemoved ==
    (NormDone /\ result.kind = "Ok")
        => IF ~norm.keep
           THEN /\ ~norm_exists(norm.bcftools_norm_path)
                /\ ~norm_exists(norm.filtered_vcf_path)
                /\ ~norm_exists(norm.vcf)
           ELSE /\ norm_exists(norm.bcftools_norm_path)
                /\ norm_exists(norm.filtered_vcf_path)
                /\ norm_exists(norm.vcf)

\* C18: a Normalise run without keep that ends in a failure leaves none of
\* the scratch files it made behind
C18_CleanupOnFailure ==
    (NormDone /\ result.kind # "Ok" /\ ~norm.keep)
        => /\ ~norm_exists(norm.bcftools_norm_path)
           /\ norm.filtered_vcf_path # norm.vcf
                => ~norm_exists(norm.filtered_vcf_path)

\* C19: no record at a blacklisted position is written with FILTER = PASS
C19_BlacklistedNeverPass ==
    FilteringWrote
        => \A i \in DOMAIN Filtered :
              Filtered[i].pos \in Range(BLACKLIST) => Filtered[i].filter # "PASS"

\* the case C19 is about: a record at a blacklisted position was written
C19_BlacklistedRecordWritten ==
    /\ FilteringWrote
    /\ \E i \in DOMAIN Filtered : Filtered[i].pos \in Range(BLACKLIST)

\* C20: a site of the input off the blacklist is written PASS exactly when,
\* with allsamples, every sample passes the per-sample rules and, without
\* it, some sample does
C20_SiteFilterAggregation ==
    FilteringWrote
        => \A i \in DOMAIN nin :
              nin[i].pos \notin Range(BLACKLIST) =>
              SitePass(i) <=>
                  IF norm.allsamples
                  THEN \A s \in DOMAIN nin[i].samples : nin[i].samples[s]
                  ELSE \E s \in DOMAIN nin[i].samples : nin[i].samples[s]

\* the content of the input file when the Normalise run starts
InputContent == [text |-> <<"calls">>, records |-> nin]

\* C21: when a Normalise run has ended, with or without keep and whatever
\* the input path is, the input file is still there with the content it had
\* when the run started
C21_InputFileUntouched ==
    NormDone => norm_exists(norm.vcf) /\ nfs[norm.vcf] = InputContent

\* the list the last method of the run indexed at files[0], if it did:
\* get_files_from_list past its length test (the list as given),
\* set_strings deriving the prefix, set_region resolving the region
FirstFileReadOf ==
    IF trace = <<>> THEN {}
    ELSE CASE Last(trace) = "get_files_from_list" /\ Len(given.files) <= 1
                -> {given.files}
           [] Last(trace) = "set_strings" /\ ~given.prefix.some
                -> {self.files}
           [] Last(trace) = "set_region" /\ ~given.region.some
                -> {self.files}
           [] OTHER -> {}

\* C22: wherever Call::run has used files[0], the file list held at least
\* one path
C22_FirstFileNeverReadOfEmptyList ==
    \A files \in FirstFileReadOf : files # <<>>

\* C23: the text set_mity_cmd puts between the delimiters of the s command
\* holds no '/' and no single quote, whatever the reference and the prefix
C23_RewriteCommandWellFormed ==
    Invoked("set_mity_cmd")
        => LET text == Range(sed_replacement(self.sed_cmd))
           IN  "/" \notin text /\ "'" \notin text

====
